---- MODULE Spec2Model ----
(***************************************************************************)
(* A model of plasmadeck.py: the PlasmaDeckWindowListener service that     *)
(* maps Stream Deck keys to KWin windows.  The state is the listener's     *)
(* slot list and window dictionary, the images the deck shows, the         *)
(* key-press coroutines suspended in a KWin scripting call, main() and     *)
(* the scripts it and the key presses loaded into KWin, and what the last  *)
(* handler let out (its exception, its scripting calls).                   *)
(*                                                                         *)
(* Python's None is the empty tuple and a present value v is <<v>>, so     *)
(* that "win is None" and "win == uuid" are decided as Python decides      *)
(* them.  Strings that end up inside a script (window identities, script   *)
(* text) are sequences of characters and opaque template tokens; "+" on    *)
(* Python strings is \o.                                                   *)
(***************************************************************************)
EXTENDS Integers, Sequences, FiniteSets, Bags, TLC

VARIABLES
    slots,      \* self.slots: key index -> None | Some(uuid)
    windows,    \* self.windows: uuid -> WindowData
    keyImage,   \* the image each key of the deck shows (None: blank)
    tasks,      \* suspended handle_press coroutines: a bag of [script, pc]
    main,       \* main(): where it is suspended or how it ended, and the calls
                \* it has made on KWin's scripting interface for SCRIPT
    loop,       \* the asyncio loop: whether main_task.cancel() was called and
                \* its CancelledError is still to be raised, and whether the
                \* loop has stopped
    host,       \* what is outside the process: the temporary files
                \* KWinScriptRunner.load left on disk, the scripts in KWin's
                \* table, how many of main()'s calls KWin has carried out,
                \* and whether the bus connection is up
    ev          \* what the handler or continuation that ran last let out: the
                \* exception it ended with, what it printed or left in my_key,
                \* the scripting calls it issued

vars == <<slots, windows, keyImage, tasks, main, loop, host, ev>>

-----------------------------------------------------------------------------
(* Bounds *)

\* The number of slots.  The source builds the list with eight entries
\* (plasmadeck.py:221); every handler walks the list by enumerate(), so the
\* model is written for any length and checked at this one.
NumSlots == 2

\* How many handle_press coroutines may be suspended in a scripting call at
\* once; the number of key events in a behaviour is not bounded.
MaxInFlight == 1

\* The keys of the attached deck (deck.key_count()), which the source never
\* asks for: one key more than there are slots, as the 15-key Stream Deck has
\* more keys than the eight slots.
KeyCount == 3

\* Window identities a caller of WindowAdded passes: what KWin reports
\* (win.internalId.toString()), and a string with a quote in it.
Ids == { <<"W", "1">>, <<"W", "'", "2">> }

\* One identity more than NumSlots holds, for the behaviours that are made of
\* window events only (SpecWindows).
WindowIds == Ids \cup { <<"W", "3">> }

Captions == { "caption" }

Classes == { "firefox" }

Keys == 0 .. (NumSlots - 1)

DeckKeys == 0 .. (KeyCount - 1)

-----------------------------------------------------------------------------
(* Values *)

None == << >>

Some(v) == << v >>

\* The image PILHelper.to_native_key_format returns for a resolved icon.
NativeImg == "native_img"

\* @dataclass WindowData
WindowData(uuid, caption, resourceClass) ==
    [uuid |-> uuid, caption |-> caption, resourceClass |-> resourceClass]

\* The module-level string "log": the script's log() helper.
log == << "function log(msg) {...}" >>

\* op: the handler; raised: the exception that ended it ("none": it
\* returned); my_key: WindowAdded's local my_key when the scan ran; calls: the
\* methods of KWin's scripting interface the step called, in order.
Event(op, raised, my_key, calls) ==
    [op |-> op, raised |-> raised, my_key |-> my_key, calls |-> calls]

\* main(): pc is the await it is suspended in ("load", "introspect", "run",
\* "wait", "stop"; "introspected" is the introspection once it is answered)
\* or the way it ended; calls are the calls it has made for
\* SCRIPT, in order.
Main(pc, calls) == [pc |-> pc, calls |-> calls]

\* The awaits of main().
Suspended == { "load", "introspect", "introspected", "run", "wait", "stop" }

\* cancel: a signal handler has called main_task.cancel() and main() has not
\* been stepped since; closed: run_until_complete has stopped the loop.
Loop(cancel, closed) == [cancel |-> cancel, closed |-> closed]

\* The two kinds of script the program loads: SCRIPT, and the scripts
\* handle_press builds.  Of the second kind the state records whether any is
\* left, not how many.
Observer == "observer"

Activation == "activation"

\* files: the kinds of script with a temporary file of tempfile.mkstemp still
\* on disk; scripts: the kinds with an entry in KWin's script table; served:
\* how many of the calls main() has made for SCRIPT (main.calls, in order)
\* KWin has carried out; bus: the connection to the session bus, "up",
\* "closed" or "lost".
Host(files, scripts, served, bus) ==
    [files |-> files, scripts |-> scripts, served |-> served, bus |-> bus]

\* The bus connection is up: calls are sent and answered, and the methods of
\* the exported interface are called.  "closed" and "lost" are the two ways it
\* ends, which settle the future of bus.wait_for_disconnect() with a result
\* or with the connection's error.
Connected == host.bus = "up"

\* The event loop runs, so D-Bus methods and key callbacks are handled, from
\* run_until_complete(main_task) until the loop stops, which is one iteration
\* after main() has ended: what is ready by then is still handled.
Serving == ~loop.closed

-----------------------------------------------------------------------------
(* Pure parts of the handlers *)

\* handle_press._cb: the script text, log + ... + self.slots[key] + ... .
ActivationScript(target) ==
    log
    \o << "for(const win of workspace.windowList()) {",
          "log(win.internalId.toString() + \" == \" + ", "'" >>
    \o target
    \o << "'", ");", "if (win.internalId.toString() == ", "'" >>
    \o target
    \o << "'", ")", "workspace.activeWindow = win", "}" >>

\* A faulty variant of ShouldActivate: the test on state is lost, so a key
\* release loads and runs a script as a press does.
ShouldActivate_release(state) == TRUE

\* handle_press._cb: "if state:", the test that lets a key event load a script.
ShouldActivate(state) == state

\* A faulty variant of FirstEmptySlot: the scan without its "break", which
\* ends on the last empty slot.
FirstEmptySlot_last(s) ==
    IF \E k \in DOMAIN s : s[k] = None
    THEN Some(CHOOSE k \in DOMAIN s :
                  s[k] = None /\ \A j \in DOMAIN s : s[j] = None => j <= k)
    ELSE None

\* WindowAdded: the scan "for key, win in enumerate(self.slots): if win is
\* None: my_key = key; ...; break".  my_key stays None when no slot is empty.
FirstEmptySlot(s) ==
    IF \E k \in DOMAIN s : s[k] = None
    THEN Some(CHOOSE k \in DOMAIN s :
                  s[k] = None /\ \A j \in DOMAIN s : s[j] = None => k <= j)
    ELSE None

\* WindowRemoved: the loop over enumerate(self.slots) from index key on.  Each
\* matching slot is emptied and then the key's image is cleared; the
\* set_key_image call for key failKey raises and ends the loop there.
RECURSIVE ReleaseLoop(_, _, _, _, _)
ReleaseLoop(s, img, uuid, key, failKey) ==
    IF key \notin DOMAIN s
    THEN [slots |-> s, keyImage |-> img, raised |-> "none"]
    ELSE IF s[key] = Some(uuid)
    THEN LET cleared == [s EXCEPT ![key] = None] IN
         IF key = failKey
         THEN [slots |-> cleared, keyImage |-> img, raised |-> "TransportError"]
         ELSE ReleaseLoop(cleared, [img EXCEPT ![key] = None], uuid, key + 1, failKey)
    ELSE ReleaseLoop(s, img, uuid, key + 1, failKey)

-----------------------------------------------------------------------------
(* Initial states *)

\* PlasmaDeckWindowListener.__init__ after deck.reset().
InitListener ==
    /\ slots = [k \in Keys |-> None]
    /\ windows = << >>
    /\ keyImage = [k \in Keys |-> None]
    /\ tasks = EmptyBag
    /\ ev = Event("init", "none", None, << >>)

\* The running service: main() has loaded and run SCRIPT, KWin has carried
\* out both calls, and main() waits in bus.wait_for_disconnect().
Init ==
    /\ InitListener
    /\ main = Main("wait", << "load", "run" >>)
    /\ loop = Loop(FALSE, FALSE)
    /\ host = Host({Observer}, {Observer}, 2, "up")

\* The start of the process: main() has exported the listener and is
\* suspended in script_runner.load(SCRIPT), which has written the temporary
\* file and called loadScript.
InitMain ==
    /\ InitListener
    /\ main = Main("load", << "load" >>)
    /\ loop = Loop(FALSE, FALSE)
    /\ host = Host({Observer}, {}, 0, "up")

-----------------------------------------------------------------------------
(* D-Bus methods *)

\* What get_icon_path_by_wm_class returns: an icon of the theme, or None.
IconResults == { None, Some("icon") }

\* The collaborator call that raises while WindowAdded runs: "decode"
\* (cairosvg.svg2png, Image.open or PILHelper), "write" (deck.set_key_image),
\* or "none".
Faults == { "none", "decode", "write" }

\* No key: the failKey of a WindowRemoved in which the device takes every write.
NoKey == 0 - 1

\* What SCRIPT's log() passes to Log.
LogMessages == { "INIT", "ADD [enter]", "REMOVE [enter]" }

\* The calls a fault names are made only on some paths of WindowAdded: the
\* decoding when an icon was found, the write when a slot was taken.
FaultCanOccur(s, icon, fault) ==
    \/ fault = "none"
    \/ fault = "decode" /\ icon # None
    \/ fault = "write" /\ icon # None /\ FirstEmptySlot(s) # None

\* WindowAdded(uuid, caption, resourceClass) run on slots s, windows w and key
\* images img: what it leaves behind, the exception that ends it, and my_key.
WindowAddedResult(s, w, img, uuid, caption, resourceClass, icon, fault) ==
    LET my_key == FirstEmptySlot(s)
        assigned == IF my_key = None THEN s ELSE [s EXCEPT ![my_key[1]] = Some(uuid)]
        registered == [u \in DOMAIN w \cup {uuid} |->
                          IF u = uuid
                          THEN WindowData(uuid, caption, resourceClass)
                          ELSE w[u]]
    IN
    IF icon = None
    THEN \* "if icon is not None" skips the scan
         [slots |-> s, windows |-> registered, keyImage |-> img,
          raised |-> "none", my_key |-> None]
    ELSE IF fault = "decode"
    THEN [slots |-> s, windows |-> w, keyImage |-> img,
          raised |-> "DecodeError", my_key |-> None]
    ELSE IF my_key = None
    THEN [slots |-> s, windows |-> registered, keyImage |-> img,
          raised |-> "none", my_key |-> None]
    ELSE IF fault = "write"
    THEN [slots |-> assigned, windows |-> w, keyImage |-> img,
          raised |-> "TransportError", my_key |-> my_key]
    ELSE [slots |-> assigned, windows |-> registered,
          keyImage |-> [img EXCEPT ![my_key[1]] = Some(NativeImg)],
          raised |-> "none", my_key |-> my_key]

WindowAdded(uuid, caption, resourceClass, icon, fault) ==
    /\ Serving
    /\ Connected
    /\ FaultCanOccur(slots, icon, fault)
    /\ LET r == WindowAddedResult(slots, windows, keyImage,
                                  uuid, caption, resourceClass, icon, fault)
       IN /\ slots' = r.slots
          /\ windows' = r.windows
          /\ keyImage' = r.keyImage
          /\ ev' = Event("WindowAdded", r.raised, r.my_key, << >>)
    /\ UNCHANGED <<tasks, main, loop, host>>

\* A set_key_image(key, None) can raise only where WindowRemoved calls it.
WriteCanFail(s, w, uuid, failKey) ==
    failKey # NoKey => uuid \in DOMAIN w /\ s[failKey] = Some(uuid)

\* A faulty variant of WindowRemovedResult: a slot the removal empties is
\* handed at once to a registered window that holds none.
WindowRemovedResult_reassign(s, w, img, uuid, failKey) ==
    IF uuid \notin DOMAIN w
    THEN [slots |-> s, windows |-> w, keyImage |-> img, raised |-> "KeyError"]
    ELSE LET r == ReleaseLoop(s, img, uuid, 0, failKey)
             left == [u \in DOMAIN w \ {uuid} |-> w[u]]
             waiting == { u \in DOMAIN left : \A k \in DOMAIN r.slots : r.slots[k] # Some(u) }
             free == FirstEmptySlot(r.slots)
         IN [slots |-> IF waiting # {} /\ free # None
                       THEN [r.slots EXCEPT ![free[1]] = Some(CHOOSE u \in waiting : TRUE)]
                       ELSE r.slots,
             windows |-> left, keyImage |-> r.keyImage, raised |-> r.raised]

\* WindowRemoved(uuid) run on slots s, windows w and key images img.  failKey
\* is the key whose set_key_image(key, None) raises.
WindowRemovedResult(s, w, img, uuid, failKey) ==
    IF uuid \notin DOMAIN w
    THEN \* "del self.windows[uuid]"
         [slots |-> s, windows |-> w, keyImage |-> img, raised |-> "KeyError"]
    ELSE LET r == ReleaseLoop(s, img, uuid, 0, failKey) IN
         [slots |-> r.slots, windows |-> [u \in DOMAIN w \ {uuid} |-> w[u]],
          keyImage |-> r.keyImage, raised |-> r.raised]

WindowRemoved(uuid, failKey) ==
    /\ Serving
    /\ Connected
    /\ WriteCanFail(slots, windows, uuid, failKey)
    /\ LET r == WindowRemovedResult(slots, windows, keyImage, uuid, failKey)
       IN /\ slots' = r.slots
          /\ windows' = r.windows
          /\ keyImage' = r.keyImage
          /\ ev' = Event("WindowRemoved", r.raised, None, << >>)
    /\ UNCHANGED <<tasks, main, loop, host>>

-----------------------------------------------------------------------------
(* The deck's key callback and its continuations *)

\* handle_press._cb(deck, key, state) up to its first suspension.  key is any
\* key of the deck: self.slots[key] raises IndexError past the last slot, and
\* str + None raises TypeError on an empty one.  Otherwise the script text is
\* built from self.slots[key], and a press goes on into KWinScriptRunner.load,
\* which writes the script to a new temporary file and calls loadScript.  The
\* coroutine is kept with its script text.
KeyEvent(key, state) ==
    /\ Serving
    /\ IF key \notin DOMAIN slots
       THEN /\ ev' = Event("KeyEvent", "IndexError", None, << >>)
            /\ UNCHANGED <<tasks, host>>
       ELSE IF slots[key] = None
       THEN /\ ev' = Event("KeyEvent", "TypeError", None, << >>)
            /\ UNCHANGED <<tasks, host>>
       ELSE LET script == ActivationScript(slots[key][1]) IN
            IF ShouldActivate(state)
            THEN /\ BagCardinality(tasks) < MaxInFlight
                 /\ tasks' = tasks (+) SetToBag({[script |-> script, pc |-> "load"]})
                 /\ host' = [host EXCEPT !.files = @ \cup {Activation}]
                 /\ ev' = Event("KeyEvent", "none", None, << "load" >>)
            ELSE /\ ev' = Event("KeyEvent", "none", None, << >>)
                 /\ UNCHANGED <<tasks, host>>
    /\ UNCHANGED <<slots, windows, keyImage, main, loop>>

\* The call a coroutine awaits, and the position of a coroutine whose call
\* has been answered and which the loop has not stepped since.
Answered(pc) ==
    CASE pc = "load" -> "loaded"
      [] pc = "introspect" -> "introspected"
      [] pc = "run" -> "ran"

\* KWin carries out the call the coroutine t awaits (loadScript, the
\* introspection of the script's object, run) and answers it over the bus:
\* after loadScript the script is in KWin's table, and the result is set on
\* the future t awaits.  t is still suspended at that await until the loop
\* steps it, whatever becomes of the connection in between.
KWinAnswers(t) ==
    /\ Connected
    /\ BagIn(t, tasks)
    /\ t.pc \in { "load", "introspect", "run" }
    /\ tasks' = (tasks (-) SetToBag({t}))
                    (+) SetToBag({[script |-> t.script, pc |-> Answered(t.pc)]})
    /\ host' = IF t.pc = "load"
               THEN [host EXCEPT !.scripts = @ \cup {Activation}]
               ELSE host
    /\ ev' = Event("KWinAnswers", "none", None, << >>)
    /\ UNCHANGED <<slots, windows, keyImage, main, loop>>

\* A faulty variant of LoadReturn: the D-Bus error of a failed load is not
\* kept in the coroutine's future but ends main().
LoadReturn_fatal(t, ok) ==
    /\ Serving
    /\ BagIn(t, tasks)
    /\ t.pc = IF ok THEN "loaded" ELSE "load"
    /\ IF ok
       THEN /\ tasks' = (tasks (-) SetToBag({t}))
                            (+) SetToBag({[script |-> t.script, pc |-> "introspect"]})
            /\ main' = main
            /\ ev' = Event("LoadReturn", "none", None, << "introspect" >>)
       ELSE /\ tasks' = tasks (-) SetToBag({t})
            /\ main' = Main("failed", main.calls)
            /\ ev' = Event("LoadReturn", "DBusError", None, << >>)
    /\ UNCHANGED <<slots, windows, keyImage, loop, host>>

\* The loop steps the coroutine t, suspended in call_load_script in
\* KWinScriptRunner.load.  ok: KWin has answered, the file descriptor is
\* closed and load suspends again, in bus.introspect.  Otherwise the call
\* has failed and the D-Bus error ends the coroutine, in a future nobody
\* reads; os.close(fd) is skipped then and the descriptor stays open.  The
\* temporary file stays either way.
LoadReturn(t, ok) ==
    /\ Serving
    /\ BagIn(t, tasks)
    /\ t.pc = IF ok THEN "loaded" ELSE "load"
    /\ IF ok
       THEN /\ tasks' = (tasks (-) SetToBag({t}))
                            (+) SetToBag({[script |-> t.script, pc |-> "introspect"]})
            /\ ev' = Event("LoadReturn", "none", None, << "introspect" >>)
       ELSE /\ tasks' = tasks (-) SetToBag({t})
            /\ ev' = Event("LoadReturn", "DBusError", None, << >>)
    /\ UNCHANGED <<slots, windows, keyImage, main, loop, host>>

\* A faulty variant of IntrospectReturn: the coroutine reads the slot table
\* again after its suspension and runs a script for what key 0 holds by then.
IntrospectReturn_reread(t, ok) ==
    /\ Serving
    /\ BagIn(t, tasks)
    /\ t.pc = IF ok THEN "introspected" ELSE "introspect"
    /\ IF ok
       THEN /\ tasks' = (tasks (-) SetToBag({t}))
                            (+) SetToBag({[script |-> IF slots[0] = None
                                                      THEN log
                                                      ELSE ActivationScript(slots[0][1]),
                                           pc |-> "run"]})
            /\ ev' = Event("IntrospectReturn", "none", None, << "run" >>)
       ELSE /\ tasks' = tasks (-) SetToBag({t})
            /\ ev' = Event("IntrospectReturn", "DBusError", None, << >>)
    /\ UNCHANGED <<slots, windows, keyImage, main, loop, host>>

\* KWinScriptRunner.load resumes in the coroutine t from bus.introspect.  ok:
\* the call was answered, the LoadedKWinScript is returned and _cb calls
\* script_obj.run(), on a connection that may have ended since.  Otherwise the D-Bus error ends the coroutine; the
\* script stays in KWin's table.
IntrospectReturn(t, ok) ==
    /\ Serving
    /\ BagIn(t, tasks)
    /\ t.pc = IF ok THEN "introspected" ELSE "introspect"
    /\ IF ok
       THEN /\ tasks' = (tasks (-) SetToBag({t}))
                            (+) SetToBag({[script |-> t.script, pc |-> "run"]})
            /\ ev' = Event("IntrospectReturn", "none", None, << "run" >>)
       ELSE /\ tasks' = tasks (-) SetToBag({t})
            /\ ev' = Event("IntrospectReturn", "DBusError", None, << >>)
    /\ UNCHANGED <<slots, windows, keyImage, main, loop, host>>

\* LoadedKWinScript.run resumes in the coroutine t and _cb ends, normally
\* when the call was answered (ok) and with the D-Bus error otherwise; the
\* script is left loaded and its file on disk.
RunReturn(t, ok) ==
    /\ Serving
    /\ BagIn(t, tasks)
    /\ t.pc = IF ok THEN "ran" ELSE "run"
    /\ tasks' = tasks (-) SetToBag({t})
    /\ ev' = Event("RunReturn", IF ok THEN "none" ELSE "DBusError", None, << >>)
    /\ UNCHANGED <<slots, windows, keyImage, main, loop, host>>

\* The exported method Log(msg): print("SCRIPT: ", msg).
Log(msg) ==
    /\ Serving
    /\ Connected
    /\ ev' = Event("Log", "none", None, << >>)
    /\ UNCHANGED <<slots, windows, keyImage, tasks, main, loop, host>>

-----------------------------------------------------------------------------

\* The events of the running service: window events, in which the deck may
\* refuse the image of an added window, and the key events with the
\* coroutines they start.  The write that clears the image of a removed
\* window fails in SpecWindows.
Next ==
    \/ \E uuid \in Ids, caption \in Captions, resourceClass \in Classes,
          icon \in IconResults, fault \in Faults :
          WindowAdded(uuid, caption, resourceClass, icon, fault)
    \/ \E uuid \in Ids : WindowRemoved(uuid, NoKey)
    \/ \E key \in DeckKeys, state \in BOOLEAN : KeyEvent(key, state)
    \/ \E t \in BagToSet(tasks) : KWinAnswers(t)
    \/ \E t \in BagToSet(tasks), ok \in BOOLEAN : LoadReturn(t, ok)
    \/ \E t \in BagToSet(tasks), ok \in BOOLEAN : IntrospectReturn(t, ok)
    \/ \E t \in BagToSet(tasks), ok \in BOOLEAN : RunReturn(t, ok)
    \/ \E msg \in LogMessages : Log(msg)

Spec == Init /\ [][Next]_vars

\* The window events alone, with more windows than slots; no key is touched.
NextWindows ==
    \/ \E uuid \in WindowIds, caption \in Captions, resourceClass \in Classes,
          icon \in IconResults, fault \in Faults :
          WindowAdded(uuid, caption, resourceClass, icon, fault)
    \/ \E uuid \in WindowIds, failKey \in Keys \cup {NoKey} :
          WindowRemoved(uuid, failKey)

SpecWindows == Init /\ [][NextWindows]_vars

-----------------------------------------------------------------------------
(* main() and the signal handlers *)

\* KWin carries out the next of main()'s calls for SCRIPT and answers it:
\* loadScript puts SCRIPT into its table, run starts it, stop ends it.  It
\* does so whether or not main() is still there to take the answer, but not
\* for a call it has answered with an error.
KWinServes ==
    /\ Connected
    /\ host.served < Len(main.calls)
    /\ main.pc # "failed"
    /\ host' = [host EXCEPT !.served = @ + 1,
                             !.scripts = IF host.served = 0
                                         THEN @ \cup {Observer} ELSE @]
    /\ ev' = Event("KWinServes", "none", None, << >>)
    /\ UNCHANGED <<slots, windows, keyImage, tasks, main, loop>>

\* The loop steps main(), suspended in call_load_script of
\* "listener_script = await script_runner.load(SCRIPT)".  ok: KWin has
\* answered and load suspends again, in bus.introspect.  Otherwise the call
\* has failed and the D-Bus error leaves main(), outside the try block.  A
\* main() whose cancellation is requested is stepped by CancelDelivered,
\* whatever was answered.
MainLoadReturn(ok) ==
    /\ main.pc = "load"
    /\ ~loop.cancel
    /\ ok <=> host.served >= 1
    /\ IF ok
       THEN /\ main' = Main("introspect", main.calls)
            /\ ev' = Event("MainLoadReturn", "none", None, << "introspect" >>)
       ELSE /\ main' = Main("failed", main.calls)
            /\ ev' = Event("MainLoadReturn", "DBusError", None, << >>)
    /\ UNCHANGED <<slots, windows, keyImage, tasks, loop, host>>

\* KWin answers the introspection load(SCRIPT) awaits: the result is set on
\* the future, and main() is still suspended at that await until the loop
\* steps it.
KWinIntrospects ==
    /\ Connected
    /\ main.pc = "introspect"
    /\ main' = Main("introspected", main.calls)
    /\ ev' = Event("KWinIntrospects", "none", None, << >>)
    /\ UNCHANGED <<slots, windows, keyImage, tasks, loop, host>>

\* load(SCRIPT) resumes from bus.introspect.  ok: main() has its
\* LoadedKWinScript, enters the try block and calls listener_script.run(),
\* on a connection that may have ended since.
\* Otherwise the D-Bus error leaves main(), with SCRIPT in KWin's table.
MainIntrospectReturn(ok) ==
    /\ main.pc = IF ok THEN "introspected" ELSE "introspect"
    /\ ~loop.cancel
    /\ IF ok
       THEN /\ main' = Main("run", Append(main.calls, "run"))
            /\ ev' = Event("MainIntrospectReturn", "none", None, << "run" >>)
       ELSE /\ main' = Main("failed", main.calls)
            /\ ev' = Event("MainIntrospectReturn", "DBusError", None, << >>)
    /\ UNCHANGED <<slots, windows, keyImage, tasks, loop, host>>

\* The loop steps main(), suspended in "await listener_script.run()".  ok:
\* KWin has started SCRIPT and main() goes on to bus.wait_for_disconnect().
\* A D-Bus error is not a CancelledError, so the except clause does not catch
\* it and it leaves main().  When the connection has ended by then, the future
\* of wait_for_disconnect is already settled and the await does not suspend:
\* main() goes on in the same step, out of the try block or out with the
\* connection's error.
MainRunReturn(ok) ==
    /\ main.pc = "run"
    /\ ~loop.cancel
    /\ ok <=> host.served >= 2
    /\ IF ok /\ Connected
       THEN /\ main' = Main("wait", main.calls)
            /\ ev' = Event("MainRunReturn", "none", None, << >>)
       ELSE IF ok /\ host.bus = "closed"
       THEN /\ main' = Main("disconnected", main.calls)
            /\ ev' = Event("MainRunReturn", "none", None, << >>)
       ELSE /\ main' = Main("failed", main.calls)
            /\ ev' = Event("MainRunReturn", "DBusError", None, << >>)
    /\ UNCHANGED <<slots, windows, keyImage, tasks, loop, host>>

\* SIGINT or SIGTERM: the signal handler calls main_task.cancel(), which
\* only asks for the cancellation; a second call before main() is stepped
\* asks for the same one.  On a main() that has ended it does nothing.
Signal ==
    /\ Serving
    /\ main.pc \in Suspended
    /\ loop' = Loop(TRUE, FALSE)
    /\ ev' = Event("Signal", "none", None, << >>)
    /\ UNCHANGED <<slots, windows, keyImage, tasks, main, host>>

\* The loop steps main() after a cancel(): CancelledError is raised in the
\* await main() is suspended in.  Inside the try block the except clause
\* prints "cleaning up" and calls listener_script.stop(); in load, before the
\* try block, and in that stop() itself, the CancelledError leaves main().
CancelDelivered ==
    /\ loop.cancel
    /\ main.pc \in Suspended
    /\ loop' = Loop(FALSE, FALSE)
    /\ IF main.pc \in { "run", "wait" }
       THEN /\ main' = Main("stop", Append(main.calls, "stop"))
            /\ ev' = Event("CancelDelivered", "none", None, << "stop" >>)
       ELSE /\ main' = Main("cancelled", main.calls)
            /\ ev' = Event("CancelDelivered", "CancelledError", None, << >>)
    /\ UNCHANGED <<slots, windows, keyImage, tasks, host>>

\* The loop steps main(), suspended in "await listener_script.stop()", and
\* main() ends.  ok: KWin has stopped SCRIPT; otherwise the call has failed.
MainStopReturn(ok) ==
    /\ main.pc = "stop"
    /\ ~loop.cancel
    /\ ok <=> host.served >= 3
    /\ IF ok
       THEN /\ main' = Main("done", main.calls)
            /\ ev' = Event("MainStopReturn", "none", None, << >>)
       ELSE /\ main' = Main("failed", main.calls)
            /\ ev' = Event("MainStopReturn", "DBusError", None, << >>)
    /\ UNCHANGED <<slots, windows, keyImage, tasks, loop, host>>

\* The bus connection ends, closed (ok) or lost with an error.  The future of
\* bus.wait_for_disconnect() is settled and the calls not yet answered fail;
\* nothing of the program runs in this step, and a main() suspended in any
\* await is stepped later.
Disconnect(ok) ==
    /\ Serving
    /\ Connected
    /\ host' = [host EXCEPT !.bus = IF ok THEN "closed" ELSE "lost"]
    /\ ev' = Event("Disconnect", "none", None, << >>)
    /\ UNCHANGED <<slots, windows, keyImage, tasks, main, loop>>

\* The loop steps main(), suspended in "await bus.wait_for_disconnect()",
\* after the connection has ended.  ok: the connection was closed, the await
\* returns and main() falls out of the try block.  Otherwise the await raises
\* the error that ended the connection, which the except clause does not
\* catch.  A cancellation requested in between is delivered instead, by
\* CancelDelivered, and stop() is then called on the ended connection.
MainWaitReturn(ok) ==
    /\ main.pc = "wait"
    /\ ~loop.cancel
    /\ ~Connected
    /\ ok <=> host.bus = "closed"
    /\ IF ok
       THEN /\ main' = Main("disconnected", main.calls)
            /\ ev' = Event("MainWaitReturn", "none", None, << >>)
       ELSE /\ main' = Main("failed", main.calls)
            /\ ev' = Event("MainWaitReturn", "DBusError", None, << >>)
    /\ UNCHANGED <<slots, windows, keyImage, tasks, loop, host>>

\* main() has ended: the done callback of run_until_complete stops the loop,
\* run_until_complete returns or raises, and "finally: loop.close()" runs.
\* Coroutines of key presses still suspended are left as they are.
LoopClose ==
    /\ Serving
    /\ main.pc \notin Suspended
    /\ loop' = Loop(FALSE, TRUE)
    /\ ev' = Event("LoopClose", "none", None, << >>)
    /\ UNCHANGED <<slots, windows, keyImage, tasks, main, host>>

-----------------------------------------------------------------------------
(* SCRIPT, the observer script, and the delivery of its calls *)

\* A window as SCRIPT sees it.
Window(internalId, caption, resourceClass) ==
    [internalId |-> internalId, caption |-> caption, resourceClass |-> resourceClass]

\* The windows KWin reports to SCRIPT: one window, which SCRIPT may report
\* more than once.
DesktopWindows ==
    { Window(id, c, r) : id \in { <<"W", "1">> },
                         c \in Captions, r \in Classes }

\* SCRIPT's add(window): the callDBus for the window.
AddCall(window) ==
    [member |-> "WindowAdded",
     args |-> << window.internalId, window.caption, window.resourceClass >>]

\* SCRIPT's remove(window): the callDBus for the window.
RemoveCall(window) ==
    [member |-> "WindowRemoved",
     args |-> << window.internalId, window.caption, window.resourceClass >>]

\* SCRIPT's log(msg): its callDBus.
LogCall(msg) == [member |-> "Log", args |-> << msg >>]

\* The methods the interface exports.
Methods == { "Log", "WindowAdded", "WindowRemoved" }

\* The in-signatures the @method() annotations declare.
MethodSignature(member) ==
    IF member = "WindowAdded" THEN << "s", "s", "s" >> ELSE << "s" >>

\* SCRIPT runs in KWin and its calls reach the process: KWin has carried out
\* run and not stop, and the bus connection is up.
ObserverRunning == host.served = 2 /\ Connected

\* A callDBus of SCRIPT reaches the exported interface.  Every argument is a
\* string, and the bus library calls the method whose name and in-signature
\* are those of the message; to any other message it answers with an
\* UnknownMethod error and runs nothing.
Deliver(call, icon, fault, failKey) ==
    IF \/ call.member \notin Methods
       \/ Len(call.args) # Len(MethodSignature(call.member))
    THEN /\ Serving
         /\ ev' = Event(call.member, "UnknownMethod", None, << >>)
         /\ UNCHANGED <<slots, windows, keyImage, tasks, main, loop, host>>
    ELSE IF call.member = "WindowAdded"
    THEN WindowAdded(call.args[1], call.args[2], call.args[3], icon, fault)
    ELSE IF call.member = "WindowRemoved"
    THEN WindowRemoved(call.args[1], failKey)
    ELSE Log(call.args[1])

\* workspace.windowAdded, and the windows of workspace.windowList() when
\* SCRIPT starts: add(window).
ObserverAdd(window, icon, fault) ==
    /\ ObserverRunning
    /\ Deliver(AddCall(window), icon, fault, NoKey)

\* workspace.windowRemoved: remove(window).
ObserverRemove(window) ==
    /\ ObserverRunning
    /\ Deliver(RemoveCall(window), None, "none", NoKey)

\* log("INIT") and the log() calls of add and remove.
ObserverLog(msg) ==
    /\ ObserverRunning
    /\ Deliver(LogCall(msg), None, "none", NoKey)

\* The process from its start to its end: main(), the signals, the window
\* events SCRIPT forwards and the deck's keys.
NextMain ==
    \/ KWinServes
    \/ KWinIntrospects
    \/ \E ok \in BOOLEAN : MainLoadReturn(ok)
    \/ \E ok \in BOOLEAN : MainIntrospectReturn(ok)
    \/ \E ok \in BOOLEAN : MainRunReturn(ok)
    \/ Signal
    \/ CancelDelivered
    \/ \E ok \in BOOLEAN : MainStopReturn(ok)
    \/ \E ok \in BOOLEAN : Disconnect(ok)
    \/ \E ok \in BOOLEAN : MainWaitReturn(ok)
    \/ LoopClose
    \/ \E window \in DesktopWindows, icon \in IconResults, fault \in Faults :
          ObserverAdd(window, icon, fault)
    \/ \E window \in DesktopWindows : ObserverRemove(window)
    \/ \E msg \in LogMessages : ObserverLog(msg)
    \/ \E key \in DeckKeys, state \in BOOLEAN : KeyEvent(key, state)
    \/ \E t \in BagToSet(tasks) : KWinAnswers(t)
    \/ \E t \in BagToSet(tasks), ok \in BOOLEAN : LoadReturn(t, ok)
    \/ \E t \in BagToSet(tasks), ok \in BOOLEAN : IntrospectReturn(t, ok)
    \/ \E t \in BagToSet(tasks), ok \in BOOLEAN : RunReturn(t, ok)

SpecMain == InitMain /\ [][NextMain]_vars

-----------------------------------------------------------------------------
(* Vocabulary of the claims *)

Full(s) == \A k \in DOMAIN s : s[k] # None

Occupies(s, uuid) == \E k \in DOMAIN s : s[k] = Some(uuid)

\* The value of the single-quoted JavaScript string literal whose first
\* character is script[i]: it ends at the first quote no backslash precedes,
\* and a backslash stands for the character after it.
RECURSIVE JsLiteral(_, _)
JsLiteral(script, i) ==
    IF i > Len(script) \/ script[i] = "'"
    THEN << >>
    ELSE IF script[i] = "\\" /\ i < Len(script)
    THEN << script[i + 1] >> \o JsLiteral(script, i + 2)
    ELSE << script[i] >> \o JsLiteral(script, i + 1)

\* The string literal the script's "if" compares win.internalId.toString()
\* with.
ComparedLiteral(script) ==
    LET p == CHOOSE i \in DOMAIN script :
                 script[i] = "if (win.internalId.toString() == "
    IN JsLiteral(script, p + 2)

\* The n characters that follow the opening quote of that comparison, and
\* whether a quote closes them: what handle_press put between its two quotes.
ComparisonOperand(script, n) ==
    LET p == CHOOSE i \in DOMAIN script :
                 script[i] = "if (win.internalId.toString() == "
    IN SubSeq(script, p + 2, p + 1 + n)

OperandClosed(script, n) ==
    LET p == CHOOSE i \in DOMAIN script :
                 script[i] = "if (win.internalId.toString() == "
    IN p + 2 + n <= Len(script) /\ script[p + 2 + n] = "'"

\* An identity without the quote and the escape character of the script
\* language: one a string literal holds as it is.
PlainIdentity(uuid) == \A i \in DOMAIN uuid : uuid[i] \notin { "'", "\\" }

LoadTask(script) == [script |-> script, pc |-> "load"]

IntrospectTask(script) == [script |-> script, pc |-> "introspect"]

RunTask(script) == [script |-> script, pc |-> "run"]

AnsweredTask(t) == [script |-> t.script, pc |-> Answered(t.pc)]

-----------------------------------------------------------------------------
(* C1 .. C10 *)

\* C1: in every reachable state no window identity occupies more than one
\* slot, whatever WindowAdded and WindowRemoved events arrived, a WindowAdded
\* repeated for an identity that already holds a slot included.
C1_SlotUniqueness ==
    \A j, k \in Keys : (j # k /\ slots[j] # None) => slots[j] # slots[k]

\* C2: after every handler, however it ended, every identity that occupies a
\* slot has an entry in the window registry.
C2_SlotsRegistered ==
    \A k \in Keys : slots[k] # None => slots[k][1] \in DOMAIN windows

\* C3: when every slot is occupied, a WindowAdded for a new identity changes
\* no slot, writes no key image, and leaves the identity registered.
C3_FullTableAdd ==
    [][\A uuid \in WindowIds, caption \in Captions, resourceClass \in Classes,
          icon \in IconResults, fault \in Faults :
          ( /\ WindowAdded(uuid, caption, resourceClass, icon, fault)
            /\ Full(slots)
            /\ ~Occupies(slots, uuid)
            /\ uuid \notin DOMAIN windows )
          => ( /\ slots' = slots
               /\ keyImage' = keyImage
               /\ uuid \in DOMAIN windows' )]_vars

\* C4: a WindowAdded that assigns a slot takes the lowest-indexed slot that
\* was empty before the event; that slot is the only one that changes.
C4_LowestEmptySlot ==
    [][\A uuid \in WindowIds, caption \in Captions, resourceClass \in Classes,
          icon \in IconResults, fault \in Faults :
          ( /\ WindowAdded(uuid, caption, resourceClass, icon, fault)
            /\ slots' # slots )
          => \E k \in Keys :
                /\ slots[k] = None
                /\ \A j \in Keys : j < k => slots[j] # None
                /\ slots'[k] = Some(uuid)
                /\ \A j \in Keys : j # k => slots'[j] = slots[j]]_vars

\* C4's case: a WindowAdded has just taken slot 1, past an occupied slot 0.
C4_Witness ==
    /\ ev.op = "WindowAdded"
    /\ ev.my_key = Some(1)
    /\ slots[0] # None
    /\ slots[1] # None

\* C5: a WindowAdded that arrives while a slot is empty is assigned a slot,
\* whether or not an icon was found for its resource class.
C5_SlotWithoutIcon ==
    [][\A uuid \in WindowIds, caption \in Captions, resourceClass \in Classes,
          icon \in IconResults :
          ( /\ WindowAdded(uuid, caption, resourceClass, icon, "none")
            /\ ~Full(slots) )
          => \E k \in Keys : slots[k] = None /\ slots'[k] = Some(uuid)]_vars

\* C6: a WindowRemoved for the identity in slot k, the device taking every
\* write, leaves slot k empty (free for the next WindowAdded), key k blank and
\* the identity out of the registry.
C6_RemoveClearsSlot ==
    [][\A uuid \in WindowIds :
          WindowRemoved(uuid, NoKey)
          => \A k \in Keys :
                slots[k] = Some(uuid)
                => ( /\ slots'[k] = None
                     /\ FirstEmptySlot(slots') # None
                     /\ FirstEmptySlot(slots')[1] <= k
                     /\ keyImage'[k] = None
                     /\ uuid \notin DOMAIN windows' )]_vars

\* C7: a WindowRemoved for an identity that is in no slot and not in the
\* registry returns without an error and changes no slot and no registry entry.
C7_RemoveUnknown ==
    [][\A uuid \in WindowIds, failKey \in Keys \cup {NoKey} :
          ( /\ WindowRemoved(uuid, failKey)
            /\ ~Occupies(slots, uuid)
            /\ uuid \notin DOMAIN windows )
          => ( /\ ev'.raised = "none"
               /\ slots' = slots
               /\ windows' = windows )]_vars

\* C8: from every reachable slot table, WindowAdded for an identity followed
\* at once by WindowRemoved for the same identity gives back the table, slot
\* by slot.
C8_RoundTrip ==
    \A uuid \in WindowIds, caption \in Captions, resourceClass \in Classes,
       icon \in IconResults, fault \in Faults, failKey \in Keys \cup {NoKey} :
       LET a == WindowAddedResult(slots, windows, keyImage,
                                  uuid, caption, resourceClass, icon, fault)
           r == WindowRemovedResult(a.slots, a.windows, a.keyImage, uuid, failKey)
       IN ( /\ FaultCanOccur(slots, icon, fault)
            /\ WriteCanFail(a.slots, a.windows, uuid, failKey) )
          => r.slots = slots

\* C9: a key press on a slot with no occupant is a no-op: no load or run
\* call, no change of slots, registry or coroutines, and the handler returns
\* normally.
C9_PressEmptySlot ==
    [][\A key \in Keys :
          ( /\ KeyEvent(key, TRUE)
            /\ slots[key] = None )
          => ( /\ ev'.calls = << >>
               /\ tasks' = tasks
               /\ slots' = slots
               /\ windows' = windows
               /\ ev'.raised = "none" )]_vars

-----------------------------------------------------------------------------
(* C11 .. C20 *)

\* C11: when a termination signal arrives while the observer script is
\* loaded and running, main() ends having called stop exactly once and then
\* unload exactly once on it: unload is not skipped.
C11_StopThenUnload ==
    main.pc = "done" => main.calls = << "load", "run", "stop", "unload" >>

\* C12: every script that was loaded, SCRIPT or a key press's, has been
\* unloaded when main() has ended its shutdown: no script is left in KWin's
\* table and no temporary file of load is left on disk.
C12_NothingLeftLoaded ==
    main.pc = "done" => host.scripts = {} /\ host.files = {}

\* C13: when decoding or scaling the icon, or writing it to the device,
\* fails in WindowAdded, the handler still returns normally and the window is
\* in the registry afterwards.
C13_IconFailureContained ==
    [][\A uuid \in WindowIds, caption \in Captions, resourceClass \in Classes,
          icon \in IconResults, fault \in Faults \ {"none"} :
          WindowAdded(uuid, caption, resourceClass, icon, fault)
          => /\ ev'.raised = "none"
             /\ uuid \in DOMAIN windows'
             /\ windows'[uuid] = WindowData(uuid, caption, resourceClass)]_vars

\* C14: the call SCRIPT makes when a window is closed is one the exported
\* WindowRemoved accepts, so the closing of a registered window that holds a
\* slot clears its slots and its registry entry.
C14_RemovalReachesHandler ==
    [][\A window \in DesktopWindows :
          /\ ObserverRemove(window)
          /\ window.internalId \in DOMAIN windows
          /\ Occupies(slots, window.internalId)
          => /\ ev'.raised # "UnknownMethod"
             /\ window.internalId \notin DOMAIN windows'
             /\ ~Occupies(slots', window.internalId)]_vars

\* C15: for every identity, one with a quote in it included, the script a
\* key press builds compares win.internalId.toString() with a string literal
\* whose value is that identity.
C15_LiteralIsIdentity ==
    [][\A key \in Keys :
          KeyEvent(key, TRUE) /\ slots[key] # None
          => \E t \in BagToSet(tasks') :
                /\ tasks' = tasks (+) SetToBag({t})
                /\ ComparedLiteral(t.script) = slots[key][1]]_vars

\* C16: handlers run one at a time, each on the whole slot table.  The
\* identity a key press puts into its script is the occupant of the pressed
\* slot when the press is handled; while the coroutine is suspended in load
\* (in loadScript, then in the introspection) or run, no other event changes or drops it, whatever becomes of the slot,
\* and the script it runs after the load is the one it built.
C16_PressSeesOccupant ==
    [][ /\ ev'.op = "KeyEvent" => \A key \in Keys :
              KeyEvent(key, TRUE) /\ slots[key] # None
              => \E t \in BagToSet(tasks') :
                    /\ tasks' = tasks (+) SetToBag({t})
                    /\ ComparisonOperand(t.script, Len(slots[key][1])) = slots[key][1]
                    /\ OperandClosed(t.script, Len(slots[key][1]))
        /\ ev'.op \notin { "KWinAnswers", "LoadReturn", "IntrospectReturn", "RunReturn" }
              => \A t \in BagToSet(tasks) : CopiesIn(t, tasks') >= CopiesIn(t, tasks)
        /\ ev'.op = "KWinAnswers" => \A t \in BagToSet(tasks) :
              KWinAnswers(t)
              => /\ BagIn(AnsweredTask(t), tasks')
                 /\ \A u \in BagToSet(tasks') :
                       u = AnsweredTask(t) \/ BagIn(u, tasks)
        /\ ev'.op = "LoadReturn" => \A t \in BagToSet(tasks) :
              LoadReturn(t, TRUE)
              => /\ BagIn(IntrospectTask(t.script), tasks')
                 /\ \A u \in BagToSet(tasks') :
                       u = IntrospectTask(t.script) \/ BagIn(u, tasks)
        /\ ev'.op = "IntrospectReturn" => \A t \in BagToSet(tasks) :
              IntrospectReturn(t, TRUE)
              => /\ BagIn(RunTask(t.script), tasks')
                 /\ \A u \in BagToSet(tasks') : u = RunTask(t.script) \/ BagIn(u, tasks)
      ]_vars

\* C16's case: a key was pressed, the window of its slot was removed while
\* the load call was in flight, and the coroutine went on to run the script
\* it had built for that window.
C16_Witness ==
    /\ ev.op = "IntrospectReturn"
    /\ \A k \in Keys : slots[k] = None
    /\ \E t \in BagToSet(tasks) :
          t.pc = "run" /\ \E u \in Ids : t.script = ActivationScript(u)

\* C17: a load (its loadScript call or its introspection) or a run call of
\* a key press that fails changes no slot, no
\* registry entry and no key image, leaves the other coroutines and main()
\* the loop and the bus connection as they were, and the service goes on
\* handling events: after the failure every key event, and over a bus that
\* is up every window event, can still be handled.
C17_ActivationFailureIsolated ==
    /\ [][ev'.raised = "DBusError" => \A t \in BagToSet(tasks) :
             LoadReturn(t, FALSE) \/ IntrospectReturn(t, FALSE) \/ RunReturn(t, FALSE)
             => /\ slots' = slots
                /\ windows' = windows
                /\ keyImage' = keyImage
                /\ tasks' = tasks (-) SetToBag({t})
                /\ main' = main
                /\ loop' = loop
                /\ host' = host]_vars
    /\ [](ev.op \in { "LoadReturn", "IntrospectReturn", "RunReturn" }
             /\ ev.raised = "DBusError"
            => /\ Serving
               /\ \A key \in DeckKeys, state \in BOOLEAN :
                     ENABLED KeyEvent(key, state)
               /\ Connected
                  => /\ \A uuid \in Ids, caption \in Captions,
                           resourceClass \in Classes :
                           ENABLED WindowAdded(uuid, caption, resourceClass,
                                               None, "none")
                     /\ \A uuid \in Ids : ENABLED WindowRemoved(uuid, NoKey))

\* C17's case: the load or run call of a key press has just failed while
\* main() waits in the running service.
C17_Witness ==
    /\ ev.op \in { "LoadReturn", "IntrospectReturn", "RunReturn" }
    /\ ev.raised = "DBusError"
    /\ main.pc = "wait"
    /\ Connected
    /\ \E k \in Keys : slots[k] # None

\* C18: the slot table has one slot for each key of the deck, no more and no
\* fewer, at every moment, so every key the deck reports indexes a slot.
C18_SlotPerDeckKey ==
    /\ DOMAIN slots = DeckKeys
    /\ ~(ev.op = "KeyEvent" /\ ev.raised = "IndexError")

\* C19 as stated: a window registered while the table was full holds no slot
\* after another window's slot is freed, and still none after a WindowAdded
\* that arrives for it while it is registered, since it was not removed.
C19_UnassignedUntilRemoved ==
    \A v \in WindowIds, u \in WindowIds :
       /\ Full(slots)
       /\ v \notin DOMAIN windows
       /\ ~Occupies(slots, v)
       /\ u \in DOMAIN windows
       /\ u # v
       => LET a == WindowAddedResult(slots, windows, keyImage, v,
                                     "caption", "firefox", Some("icon"), "none")
              r == WindowRemovedResult(a.slots, a.windows, a.keyImage, u, NoKey)
              b == WindowAddedResult(r.slots, r.windows, r.keyImage, v,
                                     "caption", "firefox", Some("icon"), "none")
          IN /\ ~Occupies(r.slots, v)
             /\ v \in DOMAIN r.windows => ~Occupies(b.slots, v)

\* C19, amended: a window registered while the table was full gets no slot
\* from the removal of another window: whatever slot is freed, it holds none
\* afterwards.  A window holds a slot it did not hold before only by a
\* WindowAdded handled for that very window, removed in between or not.
C19_NoLateAssignment ==
    /\ [](\A v \in WindowIds, u \in WindowIds, failKey \in Keys \cup {NoKey} :
             /\ Full(slots)
             /\ v \notin DOMAIN windows
             /\ ~Occupies(slots, v)
             /\ u \in DOMAIN windows
             /\ u # v
             => LET a == WindowAddedResult(slots, windows, keyImage, v,
                                           "caption", "firefox", Some("icon"), "none")
                    r == WindowRemovedResult(a.slots, a.windows, a.keyImage, u, failKey)
                IN /\ v \in DOMAIN a.windows /\ ~Occupies(a.slots, v)
                   /\ WriteCanFail(a.slots, a.windows, u, failKey)
                      => v \in DOMAIN r.windows /\ ~Occupies(r.slots, v))
    /\ [][\A v \in WindowIds :
             ~Occupies(slots, v) /\ Occupies(slots', v)
             => \E caption \in Captions, resourceClass \in Classes,
                   icon \in IconResults, fault \in Faults :
                   WindowAdded(v, caption, resourceClass, icon, fault)]_vars

\* C19's case: a slot has just been freed by a removal while a registered
\* window holds no slot, and that window still holds none.
C19_Witness ==
    /\ ev.op = "WindowRemoved"
    /\ ev.raised = "none"
    /\ ~Full(slots)
    /\ \E k \in Keys : slots[k] # None
    /\ \E v \in DOMAIN windows : ~Occupies(slots, v)

\* C20: in every reachable state a key shows an icon only if its slot is
\* occupied.
C20_ImageOnlyOnOccupiedSlot ==
    \A k \in Keys : keyImage[k] # None => slots[k] # None

====
